---------------------------- MODULE Spec2Model ----------------------------
(***************************************************************************)
(* A model of vague::StateEstimator (include/vague/state_estimator.hpp):   *)
(* a recursive Bayesian estimator owning a time and a belief (mean and     *)
(* covariance), with the operations predict, predict_observation and       *)
(* assimilate, and of TimeDependentAdditiveProcessNoise.                   *)
(*                                                                         *)
(* Scalars are extended rationals <<n, d>>: d > 0 is the number n/d in     *)
(* lowest terms, <<1, 0>> is +Inf, <<-1, 0>> is -Inf and <<0, 0>> is NaN,  *)
(* with the IEEE-754 rules for the special values (x/0, Inf*0, Inf-Inf).   *)
(* Rounding is not modelled: finite arithmetic is exact.                   *)
(* Matrices are sequences of rows; a vector is a matrix of one column.     *)
(***************************************************************************)
EXTENDS Integers, Sequences, FiniteSets

VARIABLES
    N,          \* StateSpace::N of this instantiation of the template
    dispatch,   \* the value of FunctionTypeCallableWith<decltype(estimate), Args...>, per Args
    time,       \* StateEstimator::time, in ticks of TimePoint
    estimate,   \* StateEstimator::estimate: [mean, covariance]
    ctor,       \* the constructor's arguments: [time, estimate]
    held,       \* the caller's copy of the last PredictedObservation returned (<<>>: none yet)
    nCalls,     \* the number of calls made on the estimator so far
    nAssim,     \* the number of assimilate calls among them
    last,       \* the last call: [op, outcome, error, path, calls]
    args,       \* the arguments of the last call
    pre,        \* time and estimate when the last call began
    scen        \* the tracking scenario: [truth, R] (the observed value and its covariance)

vars == <<N, dispatch, time, estimate, ctor, held, nCalls, nAssim, last, args, pre, scen>>

-----------------------------------------------------------------------------
(* Bounds of the model *)

MaxCalls == 3
MaxRepetitions == 3

(* The instantiation: ticks of TimePoint per second, ObservationSpace::N *)
TicksPerSecond == 2
ObsN == 1

-----------------------------------------------------------------------------
(* Scalar arithmetic *)

Sgn(x) == IF x > 0 THEN 1 ELSE IF x < 0 THEN -1 ELSE 0

Abs(x) == IF x < 0 THEN -x ELSE x

RECURSIVE Gcd(_, _)
Gcd(a, b) == IF b = 0 THEN a ELSE Gcd(b, a % b)

Norm(n, d) ==
    IF d = 0 THEN <<Sgn(n), 0>>
    ELSE LET g == Gcd(Abs(n), Abs(d))
             s == Sgn(d)
         IN  <<(s * n) \div g, (s * d) \div g>>

Rat(n, d) == Norm(n, d)

Zero == <<0, 1>>
One == <<1, 1>>
NaN == <<0, 0>>
PInf == <<1, 0>>
NInf == <<-1, 0>>

IsFinite(a) == a[2] # 0

(* Finite operands are reduced before they are multiplied, so that the
   intermediate products stay small. *)
SAdd(a, b) ==
    IF a[2] = 0 /\ b[2] = 0 THEN (IF a = b THEN a ELSE NaN)
    ELSE IF a[2] = 0 THEN a
    ELSE IF b[2] = 0 THEN b
    ELSE LET g == Gcd(a[2], b[2]) IN
         Norm(a[1] * (b[2] \div g) + b[1] * (a[2] \div g), (a[2] \div g) * b[2])

SNeg(a) == <<-a[1], a[2]>>

SSub(a, b) == SAdd(a, SNeg(b))

SMul(a, b) ==
    IF a[2] = 0 \/ b[2] = 0 THEN <<Sgn(a[1]) * Sgn(b[1]), 0>>
    ELSE IF a[1] = 0 \/ b[1] = 0 THEN Zero
    ELSE LET g1 == Gcd(Abs(a[1]), b[2])
             g2 == Gcd(Abs(b[1]), a[2])
         IN  <<(a[1] \div g1) * (b[1] \div g2), (a[2] \div g2) * (b[2] \div g1)>>

SInv(a) == Norm(a[2], a[1])

SLeq(a, b) == a[1] * b[2] <= b[1] * a[2]

SAbs(a) == <<Abs(a[1]), a[2]>>

-----------------------------------------------------------------------------
(* Matrix arithmetic *)

Rows(A) == Len(A)

Cols(A) == Len(A[1])

Identity(n) == [i \in 1..n |-> [j \in 1..n |-> IF i = j THEN One ELSE Zero]]

Filled(r, c, x) == [i \in 1..r |-> [j \in 1..c |-> x]]

Transpose(A) == [j \in 1..Cols(A) |-> [i \in 1..Rows(A) |-> A[i][j]]]

MatAdd(A, B) == [i \in 1..Rows(A) |-> [j \in 1..Cols(A) |-> SAdd(A[i][j], B[i][j])]]

MatSub(A, B) == [i \in 1..Rows(A) |-> [j \in 1..Cols(A) |-> SSub(A[i][j], B[i][j])]]

MatScale(x, A) == [i \in 1..Rows(A) |-> [j \in 1..Cols(A) |-> SMul(x, A[i][j])]]

RECURSIVE Dot(_, _, _, _, _)
Dot(A, B, i, j, k) ==
    IF k = 1 THEN SMul(A[i][1], B[1][j])
    ELSE SAdd(Dot(A, B, i, j, k - 1), SMul(A[i][k], B[k][j]))

MatMul(A, B) == [i \in 1..Rows(A) |-> [j \in 1..Cols(B) |-> Dot(A, B, i, j, Cols(A))]]

RECURSIVE TraceTo(_, _)
TraceTo(A, k) == IF k = 0 THEN Zero ELSE SAdd(TraceTo(A, k - 1), A[k][k])

Trace(A) == TraceTo(A, Rows(A))

MatFinite(A) == \A i \in 1..Rows(A) : \A j \in 1..Cols(A) : IsFinite(A[i][j])

-----------------------------------------------------------------------------
(* The types the capability detection is asked about *)

BeliefType == "MeanAndCovariance"

ScalarType == "Scalar"

ArgTypeLists == {<<>>, <<ScalarType>>}

(* FunctionTypeCallableWith<F, Args...>::value (vague/utility.hpp). The estimator
   asks it about F = decltype(estimate) only, so within one instantiation its value
   is a constant per argument list: dispatch[Args]. *)
FunctionTypeCallableWith(F, Args) == F = BeliefType /\ dispatch[Args]

-----------------------------------------------------------------------------
(* The callables and values a caller can pass *)

BothWays == {"direct", "sampled"}

(* Dynamics: linear maps. cap: what the callable can be invoked on ("direct": a
   Belief and dt; "sampled": a sigma-point set and dt); throws: it raises. *)
Dynamics ==
    { [kind |-> "identity", cap |-> BothWays, throws |-> FALSE],
      [kind |-> "double", cap |-> {"direct"}, throws |-> FALSE],
      [kind |-> "constvel", cap |-> {"sampled"}, throws |-> FALSE],
      [kind |-> "double", cap |-> BothWays, throws |-> TRUE] }

(* The transition matrix A of a dynamics callable over dt seconds *)
TransitionMatrix(dyn, dt, n) ==
    CASE dyn.kind = "identity" -> Identity(n)
      [] dyn.kind = "double" -> MatScale(Rat(2, 1), Identity(n))
      [] dyn.kind = "constvel" ->
            [i \in 1..n |-> [j \in 1..n |->
                IF i = j THEN One ELSE IF j = i + 1 THEN dt ELSE Zero]]

(* Process noise: TimeDependentAdditiveProcessNoise with a rate, or a strategy
   that raises *)
ProcessNoises ==
    { [rate |-> "unit", throws |-> FALSE],
      [rate |-> "unit", throws |-> TRUE] }

(* process_noise_per_second *)
ProcessNoisePerSecond(pn, n) ==
    IF pn.rate = "zero" THEN Filled(n, n, Zero) ELSE Identity(n)

(* Observers: linear maps z = H x + (the augmenting offsets) *)
Observers ==
    { [kind |-> "first", cap |-> BothWays, throws |-> FALSE],
      [kind |-> "sum", cap |-> {"direct"}, throws |-> FALSE],
      [kind |-> "sum", cap |-> {"sampled"}, throws |-> TRUE] }

(* The matrix H of an observer, which is also its jacobian *)
ObserverMatrix(obsr, n) ==
    [i \in 1..ObsN |-> [j \in 1..n |->
        IF obsr.kind = "sum" \/ j = 1 THEN One ELSE Zero]]

Augmentations == {<<>>, <<One>>}

RECURSIVE SumSeq(_)
SumSeq(s) == IF s = <<>> THEN Zero ELSE SAdd(s[1], SumSeq(Tail(s)))

AugTypes(aug) == [i \in 1..Len(aug) |-> ScalarType]

Belief(m, c) == [mean |-> m, covariance |-> c]

Observations ==
    { Belief(<<<<Rat(5, 1)>>>>, <<<<One>>>>),
      Belief(<<<<Rat(5, 1)>>>>, <<<<Zero>>>>) }

(* A PredictedObservation the caller built itself, not from the current belief *)
StalePredicted(n) ==
    { [mean |-> <<<<One>>>>, covariance |-> <<<<Rat(-1, 1)>>>>,
       cross_covariance |-> Filled(n, ObsN, One)] }

InitialEstimates(n) ==
    IF n = 1
    THEN { Belief(<<<<Zero>>>>, <<<<One>>>>),
           Belief(<<<<Rat(2, 1)>>>>, <<<<Zero>>>>) }
    ELSE { Belief(<<<<One>>, <<Zero>>>>,
                  <<<<Rat(2, 1), One>>, <<One, One>>>>) }

-----------------------------------------------------------------------------
(* TimeDependentAdditiveProcessNoise *)

(* Mutant: the rate is added without scaling it by dt *)
ProcessNoiseIgnoringDt(rate, dt, mean, covariance) == MatAdd(covariance, rate)

(* operator()(dt, mean, covariance): covariance += dt * process_noise_per_second *)
TimeDependentAdditiveProcessNoise(rate, dt, mean, covariance) ==
    MatAdd(covariance, MatScale(dt, rate))

-----------------------------------------------------------------------------
(* The sigma-point collaborators (vague/unscented_transform.hpp), for linear maps:
   the cubature rule is exact on a linear transform. *)

(* f(sample(belief, CubatureSigmaPoints())).statistics() for the linear map x -> A x + b *)
SampledStatistics(A, b, belief) ==
    Belief(MatAdd(MatMul(A, belief.mean), b),
           MatMul(MatMul(A, belief.covariance), Transpose(A)))

(* state_centered_samples * weights.asDiagonal() * predicted_obs_centered_samples^T *)
SampledCrossCovariance(A, belief) == MatMul(belief.covariance, Transpose(A))

(* A linear callable invoked directly on a Belief: x -> A x + b *)
LinearOnBelief(A, b, belief) ==
    Belief(MatAdd(MatMul(A, belief.mean), b),
           MatMul(MatMul(A, belief.covariance), Transpose(A)))

-----------------------------------------------------------------------------
(* StateEstimator::predict *)

(* t - time, in ticks *)
Duration(t, tm) == t - tm

(* Mutant: the early return is missing *)
IsNoOpMissing(count) == FALSE

IsNoOp(count) == count = 0

(* Mutant: the comparison is off by one tick *)
IsWindBackOffByOne(count) == count < -1

(* Mutant: the comparison is inverted *)
IsWindBackInverted(count) == count > 0

IsWindBack(count) == count < 0

(* duration_cast<duration<Scalar>>(duration).count(): seconds *)
DurationSeconds(count) == Rat(count, TicksPerSecond)

(* The branch of the if constexpr for the argument types Args *)
PathFor(Args) ==
    IF FunctionTypeCallableWith(BeliefType, Args) THEN "direct" ELSE "sampled"

(* Only the branch taken is instantiated: the callable must support it *)
Compiles(cap, Args) == PathFor(Args) \in cap

(* The propagated belief, by the branch taken *)
Propagate(dyn, est, dt, path) ==
    LET A == TransitionMatrix(dyn, dt, Rows(est.mean))
        b == Filled(Rows(est.mean), 1, Zero)
    IN  IF path = "direct" THEN LinearOnBelief(A, b, est)
        ELSE SampledStatistics(A, b, est)

(* process_noise(dt, estimate.mean, estimate.covariance) *)
ApplyProcessNoise(pn, dt, est) ==
    Belief(est.mean,
           TimeDependentAdditiveProcessNoise(ProcessNoisePerSecond(pn, Rows(est.mean)), dt,
                                             est.mean, est.covariance))

Outcome(tm, est, outcome, error, path, calls) ==
    [time |-> tm, estimate |-> est, outcome |-> outcome, error |-> error,
     path |-> path, calls |-> calls]

(* The whole of predict: the estimator's fields when the call ends, and how it ends *)
PredictResult(tm, est, t, dyn, pn) ==
    LET count == Duration(t, tm) IN
    IF IsNoOp(count) THEN Outcome(tm, est, "returned", "none", "none", <<>>)
    ELSE IF IsWindBack(count)
    THEN Outcome(tm, est, "threw", "runtime_error", "none", <<>>)
    ELSE LET dt == DurationSeconds(count)
             path == PathFor(<<ScalarType>>)
         IN  IF dyn.throws
             THEN Outcome(t, est, "threw", "dynamics", path, <<"dynamics">>)
             ELSE LET prop == Propagate(dyn, est, dt, path) IN
                  IF pn.throws
                  THEN Outcome(t, prop, "threw", "process_noise", path,
                               <<"dynamics", "process_noise">>)
                  ELSE Outcome(t, ApplyProcessNoise(pn, dt, prop), "returned", "none",
                               path, <<"dynamics", "process_noise">>)

Alive == last.outcome # "terminated"

Predict(t, dyn, pn) ==
    /\ Alive
    /\ Compiles(dyn.cap, <<ScalarType>>)
    /\ LET r == PredictResult(time, estimate, t, dyn, pn) IN
        /\ time' = r.time
        /\ estimate' = r.estimate
        /\ last' = [op |-> "predict", outcome |-> r.outcome, error |-> r.error,
                    path |-> r.path, calls |-> r.calls]
    /\ args' = [t |-> t, dyn |-> dyn, pn |-> pn]
    /\ pre' = [time |-> time, estimate |-> estimate]
    /\ nCalls' = nCalls + 1
    /\ UNCHANGED <<N, dispatch, ctor, held, nAssim, scen>>

-----------------------------------------------------------------------------
(* StateEstimator::predict_observation *)

(* The PredictedObservation returned, by the branch taken *)
PredictedObservation(obsr, aug, est, path) ==
    LET H == ObserverMatrix(obsr, Rows(est.mean))
        b == Filled(ObsN, 1, SumSeq(aug))
    IN  IF path = "direct"
        THEN LET z == LinearOnBelief(H, b, est) IN
             [mean |-> z.mean, covariance |-> z.covariance,
              cross_covariance |-> MatMul(est.covariance, Transpose(H))]
        ELSE LET z == SampledStatistics(H, b, est) IN
             [mean |-> z.mean, covariance |-> z.covariance,
              cross_covariance |-> SampledCrossCovariance(H, est)]

(* How predict_observation ends: noexcept turns an observer's exception into
   std::terminate *)
ObservationOutcome(obsr) == IF obsr.throws THEN "terminated" ELSE "returned"

(* Mutant: the augmenting offsets are folded into the estimator's own mean; the
   method is not const *)
PredictObservationInPlace(obsr, aug) ==
    /\ Alive
    /\ Compiles(obsr.cap, AugTypes(aug))
    /\ estimate' = Belief(MatAdd(estimate.mean, Filled(N, 1, SumSeq(aug))),
                          estimate.covariance)
    /\ held' = <<PredictedObservation(obsr, aug, estimate', PathFor(AugTypes(aug)))>>
    /\ last' = [op |-> "predict_observation", outcome |-> "returned",
                error |-> "none", path |-> PathFor(AugTypes(aug)),
                calls |-> <<"observer">>]
    /\ args' = [obsr |-> obsr, aug |-> aug]
    /\ pre' = [time |-> time, estimate |-> estimate]
    /\ nCalls' = nCalls + 1
    /\ UNCHANGED <<N, dispatch, time, ctor, nAssim, scen>>

PredictObservation(obsr, aug) ==
    /\ Alive
    /\ Compiles(obsr.cap, AugTypes(aug))
    /\ LET path == PathFor(AugTypes(aug))
           end == ObservationOutcome(obsr)
       IN  /\ held' = IF end = "returned"
                      THEN <<PredictedObservation(obsr, aug, estimate, path)>>
                      ELSE held
           /\ last' = [op |-> "predict_observation", outcome |-> end,
                       error |-> IF end = "returned" THEN "none" ELSE "observer",
                       path |-> path, calls |-> <<"observer">>]
    /\ args' = [obsr |-> obsr, aug |-> aug]
    /\ pre' = [time |-> time, estimate |-> estimate]
    /\ nCalls' = nCalls + 1
    /\ UNCHANGED <<N, dispatch, time, estimate, ctor, nAssim, scen>>

-----------------------------------------------------------------------------
(* StateEstimator::assimilate *)

(* Mutant: the observation's own covariance is left out of the sum *)
ObservationCovarianceSumWithoutObservation(po, obs) == po.covariance

(* observation_covariance_sum *)
ObservationCovarianceSum(po, obs) == MatAdd(po.covariance, obs.covariance)

(* Eigen::PartialPivLU<ObservationCovariance>(S).inverse(), for ObservationSpace::N = 1:
   the reciprocal of the single pivot, with no singularity check *)
LuInverse(S) == <<<<SInv(S[1][1])>>>>

KalmanGain(po, S) == MatMul(po.cross_covariance, LuInverse(S))

(* estimate.mean += kalman_gain * (observation.mean - predicted_observation.mean) *)
UpdatedMean(mean, K, po, obs) == MatAdd(mean, MatMul(K, MatSub(obs.mean, po.mean)))

(* Mutant: += for -= *)
UpdatedCovarianceAdded(covariance, K, S) ==
    MatAdd(covariance, MatMul(MatMul(K, S), Transpose(K)))

(* estimate.covariance -= kalman_gain * observation_covariance_sum * kalman_gain^T *)
UpdatedCovariance(covariance, K, S) ==
    MatSub(covariance, MatMul(MatMul(K, S), Transpose(K)))

AssimilateResult(est, po, obs) ==
    LET S == ObservationCovarianceSum(po, obs)
        K == KalmanGain(po, S)
    IN  Belief(UpdatedMean(est.mean, K, po, obs),
               UpdatedCovariance(est.covariance, K, S))

(* Mutant: a singular innovation covariance is rejected with an error *)
AssimilateChecked(po, obs) ==
    /\ Alive
    /\ estimate' = IF ObservationCovarianceSum(po, obs)[1][1] = Zero THEN estimate
                   ELSE AssimilateResult(estimate, po, obs)
    /\ nCalls' = nCalls + 1
    /\ nAssim' = nAssim + 1
    /\ last' = [op |-> "assimilate",
                outcome |-> IF ObservationCovarianceSum(po, obs)[1][1] = Zero
                            THEN "threw" ELSE "returned",
                error |-> IF ObservationCovarianceSum(po, obs)[1][1] = Zero
                          THEN "singular" ELSE "none",
                path |-> "none", calls |-> <<>>]
    /\ args' = [po |-> po, obs |-> obs]
    /\ pre' = [time |-> time, estimate |-> estimate]
    /\ UNCHANGED <<N, dispatch, time, ctor, held, scen>>

Assimilate(po, obs) ==
    /\ Alive
    /\ estimate' = AssimilateResult(estimate, po, obs)
    /\ nCalls' = nCalls + 1
    /\ nAssim' = nAssim + 1
    /\ last' = [op |-> "assimilate", outcome |-> "returned", error |-> "none",
                path |-> "none", calls |-> <<>>]
    /\ args' = [po |-> po, obs |-> obs]
    /\ pre' = [time |-> time, estimate |-> estimate]
    /\ UNCHANGED <<N, dispatch, time, ctor, held, scen>>

-----------------------------------------------------------------------------
(* The estimator under any caller *)

Dims == {1, 2}

InitialTimes == {1}

(* The target times a caller passes to predict, in ticks *)
Times == {0, 2, 3}

NoScenario == [truth |-> Zero, R |-> One]

(* StateEstimator(initial_time, initial_estimate) *)
Construct(scenarios) ==
    /\ N \in Dims
    /\ dispatch \in [ArgTypeLists -> BOOLEAN]
    /\ time \in InitialTimes
    /\ estimate \in InitialEstimates(N)
    /\ ctor = [time |-> time, estimate |-> estimate]
    /\ held = <<>>
    /\ nCalls = 0
    /\ nAssim = 0
    /\ last = [op |-> "construct", outcome |-> "returned", error |-> "none",
               path |-> "none", calls |-> <<>>]
    /\ args = [none |-> TRUE]
    /\ pre = [time |-> time, estimate |-> estimate]
    /\ scen \in scenarios

Init == Construct({NoScenario})

DoPredict ==
    /\ nCalls < MaxCalls
    /\ \E t \in Times : \E dyn \in Dynamics : \E pn \in ProcessNoises :
           Predict(t, dyn, pn)

DoPredictObservation ==
    /\ nCalls < MaxCalls
    /\ \E obsr \in Observers : \E aug \in Augmentations :
           PredictObservation(obsr, aug)

DoAssimilate ==
    /\ nCalls < MaxCalls
    /\ \E po \in StalePredicted(N) \cup {held[i] : i \in 1..Len(held)} :
           \E obs \in Observations : Assimilate(po, obs)

Next == DoPredict \/ DoPredictObservation \/ DoAssimilate

Spec == Init /\ [][Next]_vars

-----------------------------------------------------------------------------
(* The tracking scenario: a static true state is observed again and again with the
   same observation covariance R; each repetition is predict_observation on the
   current belief followed by assimilate of the observation. *)

Scenarios ==
    { [truth |-> x, R |-> r] : x \in {Rat(5, 1), Rat(-1, 1)}, r \in {One, Rat(2, 1)} }

StaticObserver == [kind |-> "first", cap |-> BothWays, throws |-> FALSE]

InitKalman == Construct(Scenarios)

KalmanObserve ==
    /\ nAssim < MaxRepetitions
    /\ last.op # "predict_observation"
    /\ PredictObservation(StaticObserver, <<>>)

KalmanAssimilate ==
    /\ last.op = "predict_observation"
    /\ Assimilate(held[1], Belief(<<<<scen.truth>>>>, <<<<scen.R>>>>))

NextKalman == KalmanObserve \/ KalmanAssimilate

SpecKalman == InitKalman /\ [][NextKalman]_vars

-----------------------------------------------------------------------------
(* Properties *)

Seconds(t, tm) == Rat(t - tm, TicksPerSecond)

(* C1: predict(t) with t strictly earlier than the estimator's time fails with the
   time-order error (std::runtime_error), leaves time and estimate as they were
   before the call, and invokes neither dynamics nor process_noise. *)
C1_WindBackRejected ==
    (last.op = "predict" /\ args.t < pre.time) =>
        /\ last.outcome = "threw"
        /\ last.error = "runtime_error"
        /\ time = pre.time
        /\ estimate = pre.estimate
        /\ last.calls = <<>>

C1_Witness ==
    /\ last.op = "predict"
    /\ args.t < pre.time
    /\ ~args.dyn.throws
    /\ ~args.pn.throws
    /\ pre.time > ctor.time

(* C2: predict(t) with t equal to the estimator's time returns normally and leaves
   time and estimate exactly unchanged whatever dynamics and process_noise are;
   neither is invoked, so no process noise is added. *)
C2_NoOpAtEqualTime ==
    (last.op = "predict" /\ args.t = pre.time) =>
        /\ last.outcome = "returned"
        /\ time = pre.time
        /\ estimate = pre.estimate
        /\ last.calls = <<>>

C2_Witness ==
    /\ last.op = "predict"
    /\ args.t = pre.time
    /\ args.dyn.kind = "double"
    /\ ~args.dyn.throws
    /\ args.pn = [rate |-> "unit", throws |-> FALSE]
    /\ pre.estimate.covariance[1][1] # Zero

(* C3: across any sequence of predict, predict_observation and assimilate calls,
   failed predict calls included, time never decreases: after every call it is at
   least its value before the call, which is at least the initial time. *)
C3_TimeNeverDecreases ==
    /\ time >= pre.time
    /\ pre.time >= ctor.time

C3_Witness ==
    /\ last.op = "predict"
    /\ last.error = "runtime_error"
    /\ time > ctor.time
    /\ nAssim > 0

(* C4: in every state observable after a predict call ends, normally or with an
   error raised inside the call, either time and estimate both hold their pre-call
   values, or time is t and estimate is the propagated, noise-inflated belief. *)
C4_TimeAndEstimateTogether ==
    last.op = "predict" =>
        \/ time = pre.time /\ estimate = pre.estimate
        \/ /\ time = args.t
           /\ ~args.dyn.throws
           /\ ~args.pn.throws
           /\ estimate =
                ApplyProcessNoise(args.pn, Seconds(args.t, pre.time),
                    Propagate(args.dyn, pre.estimate, Seconds(args.t, pre.time),
                              last.path))

C6_KalmanUpdate ==
    last.op = "assimilate" =>
        LET S == SAdd(args.po.covariance[1][1], args.obs.covariance[1][1])
            v == SSub(args.obs.mean[1][1], args.po.mean[1][1])
            c == args.po.cross_covariance
        IN  /\ (IsFinite(S) /\ S # Zero /\ MatFinite(pre.estimate.mean)
                    /\ MatFinite(pre.estimate.covariance)) =>
                   /\ \A i \in 1..N :
                        estimate.mean[i][1] =
                            SAdd(pre.estimate.mean[i][1],
                                 SMul(SMul(c[i][1], v), SInv(S)))
                   /\ \A i \in 1..N : \A j \in 1..N :
                        estimate.covariance[i][j] =
                            SSub(pre.estimate.covariance[i][j],
                                 SMul(SMul(c[i][1], c[j][1]), SInv(S)))
            /\ (/\ pre.estimate = Belief(<<<<Zero>>>>, <<<<One>>>>)
                /\ args.po = [mean |-> <<<<Zero>>>>, covariance |-> <<<<One>>>>,
                              cross_covariance |-> <<<<One>>>>]
                /\ args.obs = Belief(<<<<Rat(5, 1)>>>>, <<<<One>>>>)) =>
                   estimate = Belief(<<<<Rat(5, 2)>>>>, <<<<Rat(1, 2)>>>>)

C6_Witness ==
    /\ last.op = "assimilate"
    /\ pre.estimate = Belief(<<<<Zero>>>>, <<<<One>>>>)
    /\ args.po = [mean |-> <<<<Zero>>>>, covariance |-> <<<<One>>>>,
                  cross_covariance |-> <<<<One>>>>]
    /\ args.obs = Belief(<<<<Rat(5, 1)>>>>, <<<<One>>>>)

(* C7: for a linear dynamics map with transition matrix A and a
   TimeDependentAdditiveProcessNoise with rate Q, predict(t) with t later than the
   current time by dt seconds sets time to t, the mean to A mean and the covariance
   to A P A^T + dt Q, (mean, P) being the belief before the call. *)
C7_LinearPropagation ==
    (last.op = "predict" /\ last.outcome = "returned" /\ args.t > pre.time) =>
        LET dt == Seconds(args.t, pre.time)
            A == TransitionMatrix(args.dyn, dt, N)
            Q == ProcessNoisePerSecond(args.pn, N)
        IN  /\ time = args.t
            /\ estimate.mean = MatMul(A, pre.estimate.mean)
            /\ estimate.covariance =
                  MatAdd(MatMul(A, MatMul(pre.estimate.covariance, Transpose(A))),
                         MatScale(dt, Q))

C7_Witness ==
    /\ last.op = "predict"
    /\ last.outcome = "returned"
    /\ args.t = pre.time + 1
    /\ args.dyn.kind = "constvel"
    /\ N = 2
    /\ MatFinite(pre.estimate.covariance)
    /\ estimate.covariance[1][2] # pre.estimate.covariance[1][2]

(* A symmetric positive semi-definite matrix, of dimension 1 or 2 *)
PositiveSemiDefinite(C) ==
    /\ MatFinite(C)
    /\ C = Transpose(C)
    /\ \A i \in 1..Rows(C) : SLeq(Zero, C[i][i])
    /\ Rows(C) = 2 =>
          SLeq(SMul(C[1][2], C[2][1]), SMul(C[1][1], C[2][2]))

(* The distance of the observed (first) component of the mean from the true value *)
Error(est) == SAbs(SSub(est.mean[1][1], scen.truth))

SLess(a, b) == SLeq(a, b) /\ a # b

(* C8, as stated, in the part a finite run decides: starting from any positive
   semi-definite covariance, each repetition leaves the covariance no larger in
   trace and positive semi-definite, and the mean goes on toward the true value: no
   repetition that starts off the true value leaves the belief exactly as it was
   (a belief left as it was is left so by every later repetition too). *)
C8_MeanKeepsConverging ==
    last.op = "assimilate" =>
        /\ SLeq(Trace(estimate.covariance), Trace(pre.estimate.covariance))
        /\ PositiveSemiDefinite(estimate.covariance)
        /\ Error(pre.estimate) # Zero => estimate # pre.estimate

(* C8, amended: each repetition leaves the covariance no larger in trace and
   positive semi-definite; when the initial variance P0 of the observed component
   is positive, after n repetitions that variance is P0 R / (R + n P0) and the
   distance of the observed component of the mean from the true value is
   |m0 - z| R / (R + n P0), which shrinks at every repetition and tends to 0. *)
C8_KalmanConvergence ==
    last.op = "assimilate" =>
        /\ SLeq(Trace(estimate.covariance), Trace(pre.estimate.covariance))
        /\ PositiveSemiDefinite(estimate.covariance)
        /\ SLess(Zero, ctor.estimate.covariance[1][1]) =>
              LET P0 == ctor.estimate.covariance[1][1]
                  D == SAdd(scen.R, SMul(Rat(nAssim, 1), P0))
              IN  /\ SMul(estimate.covariance[1][1], D) = SMul(P0, scen.R)
                  /\ SMul(Error(estimate), D) = SMul(Error(ctor.estimate), scen.R)
                  /\ Error(pre.estimate) # Zero =>
                        SLess(Error(estimate), Error(pre.estimate))

C8_Witness ==
    /\ last.op = "assimilate"
    /\ nAssim >= 2
    /\ N = 2
    /\ SLess(Zero, ctor.estimate.covariance[1][1])
    /\ Error(estimate) # Zero
    /\ SLess(estimate.covariance[1][1], pre.estimate.covariance[1][1])

(* C9: assimilate never signals an error and never checks its inputs: whatever the
   predicted observation and the observation, the call returns normally, time is
   unchanged and the estimate is what the update formulas yield; with a singular
   innovation covariance (S = 0) that is a covariance of NaN entries and a mean of
   non-finite entries. *)
C9_AssimilateNeverFails ==
    last.op = "assimilate" =>
        /\ last.outcome = "returned"
        /\ last.error = "none"
        /\ time = pre.time
        /\ estimate = AssimilateResult(pre.estimate, args.po, args.obs)
        /\ SAdd(args.po.covariance[1][1], args.obs.covariance[1][1]) = Zero =>
              /\ \A i \in 1..N : \A j \in 1..N : estimate.covariance[i][j] = NaN
              /\ \A i \in 1..N : ~IsFinite(estimate.mean[i][1])

C9_Witness ==
    /\ last.op = "assimilate"
    /\ SAdd(args.po.covariance[1][1], args.obs.covariance[1][1]) = Zero
    /\ MatFinite(pre.estimate.mean)
    /\ MatFinite(pre.estimate.covariance)
    /\ estimate.mean[1][1] = PInf

(* C10: the branch taken follows the capability of the callable passed: predict
   (and likewise predict_observation) takes the differentiable path exactly when
   the callable can be invoked directly on the Belief, and two calls on the same
   estimator state with callables of different capability take different paths. *)
C10_PathFollowsCapability ==
    /\ (last.op = "predict" /\ last.path # "none") =>
          /\ last.path = "direct" <=> "direct" \in args.dyn.cap
          /\ \A other \in Dynamics :
                (other.cap # args.dyn.cap /\ Compiles(other.cap, <<ScalarType>>)) =>
                    PredictResult(pre.time, pre.estimate, args.t, other, args.pn).path
                        # last.path
    /\ last.op = "predict_observation" =>
          /\ last.path = "direct" <=> "direct" \in args.obsr.cap
          /\ \A other \in Observers :
                (other.cap # args.obsr.cap /\ Compiles(other.cap, AugTypes(args.aug))) =>
                    PathFor(AugTypes(args.aug)) # last.path

=============================================================================
